---- MODULE Spec2Model ----
(***************************************************************************)
(* The blog's request handler (the Hono application served by Deno.serve)  *)
(* over its key-value namespace.  Every route is one action: the handler   *)
(* run from its first statement to the response, with the kv reads and     *)
(* writes it performs.  The identity provider is the collaborator behind   *)
(* verifyAuth and signup; it is modelled by the set of accounts it holds.  *)
(* RaceSpec handles the read-modify-write routes concurrently instead,     *)
(* each as a read step and a write step.                                   *)
(***************************************************************************)
EXTENDS Integers, Sequences, FiniteSets, TLC

VARIABLES
    users,      \* kv entries under the prefix "users:"    (id -> record)
    posts,      \* kv entries under the prefix "posts:"    (id -> record)
    comments,   \* kv entries under the prefix "comments:" (id -> record)
    accounts,   \* subject ids the identity provider holds an account for
    now,        \* the clock read by Date.now() and new Date()
    served,     \* number of requests answered so far
    req,        \* the request answered last: operation, caller, path id
    resp,       \* its response: HTTP status and JSON body
    flight      \* requests whose handler has read the store and not yet written

vars == <<users, posts, comments, accounts, now, served, req, resp, flight>>
kv == <<users, posts, comments>>

----------------------------------------------------------------------------
(* Bounds of the model *)
MaxRequests == 3    \* requests answered in one behaviour
MaxTime == 2        \* last clock value
MaxFlights == 2     \* requests handled concurrently in one behaviour

(* Program constants *)
ExcerptLen == 200

----------------------------------------------------------------------------
(* JSON values.  A string that the code only copies is a TLA+ string; a    *)
(* string it takes apart (title, content, excerpt) is a sequence of        *)
(* characters.  A field that is undefined is absent from the record, as    *)
(* JSON.stringify drops it.  likes is <<n>> for the number n and <<>> for  *)
(* null.                                                                   *)

NoUser == "null"
Subjects == {"u1", "u2"}
EmailOf(u) == u \o "@mail"
Empty == <<>>

Has(r, f) == f \in DOMAIN r
Opt(r, f) == IF Has(r, f) THEN (f :> r[f]) ELSE Empty

Put(store, key, value) ==
    [k \in DOMAIN store \cup {key} |-> IF k = key THEN value ELSE store[k]]
Del(store, key) == [k \in DOMAIN store \ {key} |-> store[k]]
Present(store, key) == key \in DOMAIN store

Min(a, b) == IF a < b THEN a ELSE b
Substring(s, n) == SubSeq(s, 1, Min(Len(s), n))

(* verifyAuth: the user of the bearer token, or null *)
verifyAuth(authHeader) ==
    IF authHeader = NoUser THEN NoUser
    ELSE IF authHeader \in accounts THEN authHeader ELSE NoUser

(* userData?.role and userData?.username || user.email *)
RoleOf(u) ==
    IF Present(users, u) /\ Has(users[u], "role") THEN users[u].role ELSE "undefined"
NameOf(u) ==
    IF Present(users, u) /\ Has(users[u], "username") /\ users[u].username # ""
    THEN users[u].username ELSE EmailOf(u)

----------------------------------------------------------------------------
(* Inputs: what clients send *)

Headers == Subjects \cup {NoUser}           \* Authorization header: whose token
Rnd == {"k3x", "q9z"}                       \* Math.random().toString(36).substr(2, 9)
MissingId == <<"post", 0, "none">>          \* an id no create ever returns

PostBodies ==
    { [title |-> <<"T">>, content |-> <<"h", "i">>, tags |-> <<"x", "y">>,
       categories |-> <<"B">>],
      [title |-> <<"D">>, content |-> <<"H", "i", "!">>, excerpt |-> <<"H">>,
       status |-> "draft", featured |-> TRUE, tags |-> <<"y", "x">>,
       id |-> MissingId, authorId |-> "u1", authorName |-> "root", likes |-> <<7>>],
      [title |-> <<"A">>, status |-> "archived", categories |-> <<"A", "B">>] }

PostPatches ==
    { [status |-> "draft"],
      [status |-> "published", title |-> <<"T", "2">>, tags |-> <<"y">>],
      [id |-> MissingId, authorId |-> "u2", likes |-> <<0>>, status |-> "archived",
       createdAt |-> 0],
      [likes |-> <<>>] }

(* The ids a client sends: a stored one, the one of the request before    *)
(* (still stored or just deleted), or one that was never created          *)
PostOps == {"CreatePost", "GetPost", "UpdatePost", "DeletePost", "LikePost"}
PostIds ==
    DOMAIN posts \cup {MissingId} \cup (IF req.op \in PostOps THEN {req.id} ELSE {})

----------------------------------------------------------------------------
(* The response of the request being answered, and the request itself *)
Answer(op, caller, id, status, body) ==
    /\ served' = served + 1
    /\ req' = [op |-> op, caller |-> caller, id |-> id]
    /\ resp' = [status |-> status, body |-> body]
    /\ now' = now
    /\ flight' = flight

Error(msg) == [error |-> msg]

----------------------------------------------------------------------------
(* POST /posts *)

Truthy(r, f, falsy) == Has(r, f) /\ r[f] # falsy

NewPostId(rnd) == <<"post", now, rnd>>

(* PostText with the tags of the body forgotten *)
PostTextNoTags(postData) ==
    [ tags |-> <<>>,
      categories |-> IF Has(postData, "categories") THEN postData.categories ELSE <<>> ]
    @@ Opt(postData, "title")
    @@ Opt(postData, "content")
    @@ (IF Truthy(postData, "excerpt", <<>>) THEN ("excerpt" :> postData.excerpt)
        ELSE IF Has(postData, "content")
             THEN ("excerpt" :> Substring(postData.content, ExcerptLen))
             ELSE Empty)

(* title, content, excerpt, tags and categories as the body gives them *)
PostText(postData) ==
    [ tags |-> IF Has(postData, "tags") THEN postData.tags ELSE <<>>,
      categories |-> IF Has(postData, "categories") THEN postData.categories ELSE <<>> ]
    @@ Opt(postData, "title")
    @@ Opt(postData, "content")
    @@ (IF Truthy(postData, "excerpt", <<>>) THEN ("excerpt" :> postData.excerpt)
        ELSE IF Has(postData, "content")
             THEN ("excerpt" :> Substring(postData.content, ExcerptLen))
             ELSE Empty)

(* Authorship that trusts the authorId and authorName of the body *)
AuthorshipFromBody(user, postData) ==
    [ authorId |-> IF Has(postData, "authorId") THEN postData.authorId ELSE user,
      authorName |-> IF Has(postData, "authorName") THEN postData.authorName
                     ELSE NameOf(user) ]

(* authorId and authorName, from the verified caller and its stored record *)
Authorship(user, postData) ==
    [ authorId |-> user, authorName |-> NameOf(user) ]

NewPost(user, postData, postId) ==
    [ id |-> postId,
      image |-> IF Truthy(postData, "image", "") THEN postData.image ELSE "",
      status |-> IF Truthy(postData, "status", "") THEN postData.status ELSE "published",
      featured |-> IF Truthy(postData, "featured", FALSE) THEN postData.featured ELSE FALSE,
      likes |-> <<0>>,
      createdAt |-> now,
      updatedAt |-> now ]
    @@ Authorship(user, postData)
    @@ PostText(postData)

CreatePost(authHeader, postData, rnd) ==
    LET user == verifyAuth(authHeader)
        postId == NewPostId(rnd)
        newPost == NewPost(user, postData, postId)
    IN  IF user = NoUser
        THEN /\ Answer("CreatePost", user, MissingId, 401,
                       Error("Unauthorized - please log in to create posts"))
             /\ UNCHANGED <<kv, accounts>>
        ELSE /\ posts' = Put(posts, postId, newPost)
             /\ Answer("CreatePost", user, postId, 200, newPost)
             /\ UNCHANGED <<users, comments, accounts>>

(* GET /posts/:id *)
GetPost(postId) ==
    /\ IF ~Present(posts, postId)
       THEN Answer("GetPost", NoUser, postId, 404, Error("Post not found"))
       ELSE Answer("GetPost", NoUser, postId, 200, posts[postId])
    /\ UNCHANGED <<kv, accounts>>

(* PUT /posts/:id *)
(* MayModify with the role comparison inverted *)
MayModifyInverted(ownerId, user) == ownerId = user \/ RoleOf(user) # "admin"
MayModify(ownerId, user) == ownerId = user \/ RoleOf(user) = "admin"

UpdatedPost(currentPost, updates, postId) ==
    [id |-> postId, updatedAt |-> now] @@ updates @@ currentPost

UpdatePost(authHeader, postId, updates) ==
    LET user == verifyAuth(authHeader) IN
    IF user = NoUser
    THEN /\ Answer("UpdatePost", user, postId, 401, Error("Unauthorized"))
         /\ UNCHANGED <<kv, accounts>>
    ELSE IF ~Present(posts, postId)
    THEN /\ Answer("UpdatePost", user, postId, 404, Error("Post not found"))
         /\ UNCHANGED <<kv, accounts>>
    ELSE IF ~MayModify(posts[postId].authorId, user)
    THEN /\ Answer("UpdatePost", user, postId, 403, Error("Forbidden"))
         /\ UNCHANGED <<kv, accounts>>
    ELSE LET updatedPost == UpdatedPost(posts[postId], updates, postId) IN
         /\ posts' = Put(posts, postId, updatedPost)
         /\ Answer("UpdatePost", user, postId, 200, updatedPost)
         /\ UNCHANGED <<users, comments, accounts>>

(* DeletePost that acknowledges without deleting the key *)
DeletePostKept(authHeader, postId) ==
    LET user == verifyAuth(authHeader) IN
    /\ IF user = NoUser
       THEN Answer("DeletePost", user, postId, 401, Error("Unauthorized"))
       ELSE IF ~Present(posts, postId)
       THEN Answer("DeletePost", user, postId, 404, Error("Post not found"))
       ELSE IF ~MayModify(posts[postId].authorId, user)
       THEN Answer("DeletePost", user, postId, 403, Error("Forbidden"))
       ELSE Answer("DeletePost", user, postId, 200,
                   [message |-> "Post deleted successfully"])
    /\ UNCHANGED <<kv, accounts>>

(* DELETE /posts/:id *)
DeletePost(authHeader, postId) ==
    LET user == verifyAuth(authHeader) IN
    IF user = NoUser
    THEN /\ Answer("DeletePost", user, postId, 401, Error("Unauthorized"))
         /\ UNCHANGED <<kv, accounts>>
    ELSE IF ~Present(posts, postId)
    THEN /\ Answer("DeletePost", user, postId, 404, Error("Post not found"))
         /\ UNCHANGED <<kv, accounts>>
    ELSE IF ~MayModify(posts[postId].authorId, user)
    THEN /\ Answer("DeletePost", user, postId, 403, Error("Forbidden"))
         /\ UNCHANGED <<kv, accounts>>
    ELSE /\ posts' = Del(posts, postId)
         /\ Answer("DeletePost", user, postId, 200,
                   [message |-> "Post deleted successfully"])
         /\ UNCHANGED <<users, comments, accounts>>

(* POST /posts/:id/like and POST /comments/:id/like: (x.likes || 0) + 1 *)
LikesOf(record) ==
    IF Has(record, "likes") /\ record.likes # <<>> THEN record.likes[1] ELSE 0

(* Liked with the increment lost: the record is saved as it was read *)
LikedUnsaved(record) == ("likes" :> <<LikesOf(record)>>) @@ record
Liked(record) == ("likes" :> <<LikesOf(record) + 1>>) @@ record

LikePost(postId) ==
    IF ~Present(posts, postId)
    THEN /\ Answer("LikePost", NoUser, postId, 404, Error("Post not found"))
         /\ UNCHANGED <<kv, accounts>>
    ELSE LET post == Liked(posts[postId]) IN
         /\ posts' = Put(posts, postId, post)
         /\ Answer("LikePost", NoUser, postId, 200, [likes |-> LikesOf(post)])
         /\ UNCHANGED <<users, comments, accounts>>

----------------------------------------------------------------------------
(* GET /posts *)

Queries ==
    { Empty,
      [category |-> "B"],
      [tag |-> "x", featured |-> "false"],
      [search |-> <<"H", "I">>],
      [featured |-> "true"],
      [category |-> "", tag |-> "y", search |-> <<"t">>] }

Lower(ch) ==
    CASE ch = "A" -> "a" [] ch = "D" -> "d" [] ch = "H" -> "h"
      [] ch = "I" -> "i" [] ch = "T" -> "t" [] OTHER -> ch
toLowerCase(s) == [i \in DOMAIN s |-> Lower(s[i])]

includes(s, x) == \E i \in DOMAIN s : s[i] = x
includesString(s, sub) ==
    \E i \in 0..(Len(s) - Len(sub)) : SubSeq(s, i + 1, i + Len(sub)) = sub

(* kv.getByPrefix: the values of the prefix, in the order the store scans  *)
(* them, which it does not fix.                                            *)
getByPrefix(store) ==
    { [i \in 1..Cardinality(DOMAIN store) |-> store[ks[i]]] :
        ks \in { f \in [1..Cardinality(DOMAIN store) -> DOMAIN store] :
                   \A i, j \in DOMAIN f : i # j => f[i] # f[j] } }

(* Array.prototype.sort with the comparator dir * (a.createdAt - b.createdAt): *)
(* a stable sort; dir = -1 is newest first, dir = 1 oldest first.              *)
(* Insert with the comparator's operands swapped *)
InsertSwapped(x, sorted, dir) ==
    LET k == Cardinality({i \in DOMAIN sorted :
                            dir * (x.createdAt - sorted[i].createdAt) <= 0})
    IN  SubSeq(sorted, 1, k) \o <<x>> \o SubSeq(sorted, k + 1, Len(sorted))
Insert(x, sorted, dir) ==
    LET k == Cardinality({i \in DOMAIN sorted :
                            dir * (sorted[i].createdAt - x.createdAt) <= 0})
    IN  SubSeq(sorted, 1, k) \o <<x>> \o SubSeq(sorted, k + 1, Len(sorted))

RECURSIVE Sort(_, _)
Sort(s, dir) ==
    IF s = <<>> THEN <<>>
    ELSE Insert(s[Len(s)], Sort(SubSeq(s, 1, Len(s) - 1), dir), dir)

(* MatchesSearch looking at the title alone *)
MatchesSearchTitleOnly(p, searchLower) ==
    Has(p, "title") /\ includesString(toLowerCase(p.title), searchLower)
MatchesSearch(p, searchLower) ==
    \/ Has(p, "title") /\ includesString(toLowerCase(p.title), searchLower)
    \/ Has(p, "content") /\ includesString(toLowerCase(p.content), searchLower)
    \/ Has(p, "excerpt") /\ includesString(toLowerCase(p.excerpt), searchLower)

(* Visible without the status filter *)
VisibleToAll(p, user) == TRUE
Visible(p, user) == user # NoUser \/ p.status = "published"

ListedPosts(scan, user, query) ==
    LET IsVisible(p) == Visible(p, user)
        InCategory(p) ==
            Truthy(query, "category", "") => includes(p.categories, query.category)
        HasTag(p) == Truthy(query, "tag", "") => includes(p.tags, query.tag)
        Found(p) ==
            Truthy(query, "search", <<>>) => MatchesSearch(p, toLowerCase(query.search))
        IsFeatured(p) ==
            (Has(query, "featured") /\ query.featured = "true") => p.featured = TRUE
    IN  Sort(SelectSeq(SelectSeq(SelectSeq(SelectSeq(SelectSeq(scan,
            IsVisible), InCategory), HasTag), Found), IsFeatured), -1)

(* The request of a listing carries its query string as well *)
ListPosts(authHeader, query) ==
    \E scan \in getByPrefix(posts) :
        /\ served' = served + 1
        /\ req' = [op |-> "ListPosts", caller |-> verifyAuth(authHeader),
                   id |-> MissingId, query |-> query]
        /\ resp' = [status |-> 200,
                    body |-> ListedPosts(scan, verifyAuth(authHeader), query)]
        /\ now' = now
        /\ flight' = flight
        /\ UNCHANGED <<kv, accounts>>

----------------------------------------------------------------------------
(* POST /signup *)

SubjectOf(email) == CHOOSE u \in Subjects : EmailOf(u) = email

SignupBodies ==
    { [email |-> EmailOf(u), password |-> "pw", username |-> u, role |-> "admin"] :
        u \in Subjects }
    \cup { [email |-> EmailOf("u2"), password |-> "pw", username |-> "bob",
            avatar |-> "a.png"],
           [email |-> EmailOf("u2"), username |-> "eve"] }

(* NewUser with the role the body asks for *)
NewUserRoleFromBody(userId, body) ==
    [ id |-> userId,
      email |-> body.email,
      username |-> body.username,
      role |-> IF Has(body, "role") THEN body.role ELSE "user",
      avatar |-> IF Truthy(body, "avatar", "") THEN body.avatar ELSE "",
      bio |-> "",
      createdAt |-> now ]
NewUser(userId, body) ==
    [ id |-> userId,
      email |-> body.email,
      username |-> body.username,
      role |-> "user",
      avatar |-> IF Truthy(body, "avatar", "") THEN body.avatar ELSE "",
      bio |-> "",
      createdAt |-> now ]

Signup(body) ==
    IF ~(Truthy(body, "email", "") /\ Truthy(body, "password", "")
         /\ Truthy(body, "username", ""))
    THEN /\ Answer("Signup", NoUser, NoUser, 400,
                   Error("Email, password, and username are required"))
         /\ UNCHANGED <<kv, accounts>>
    ELSE IF SubjectOf(body.email) \in accounts      \* supabase.auth.admin.createUser fails
    THEN /\ Answer("Signup", NoUser, NoUser, 400, Error("provider"))
         /\ UNCHANGED <<kv, accounts>>
    ELSE LET userId == SubjectOf(body.email) IN
         /\ accounts' = accounts \cup {userId}
         /\ users' = Put(users, userId, NewUser(userId, body))
         /\ Answer("Signup", NoUser, userId, 200,
                   [message |-> "User created successfully", userId |-> userId])
         /\ UNCHANGED <<posts, comments>>

(* PUT /user/:id *)
UserPatches ==
    { [username |-> "zed"],
      [avatar |-> "b.png", bio |-> "hi"],
      [role |-> "admin", id |-> "u0"] }

(* UpdatedUser without the id written back *)
UpdatedUserIdFromBody(currentData, updates, userId) ==
    updates @@ currentData
UpdatedUser(currentData, updates, userId) ==
    ("id" :> userId) @@ updates @@ currentData

(* UpdateUser carrying the new username into the author's posts *)
UpdateUserRenamingPosts(authHeader, userId, updates) ==
    LET user == verifyAuth(authHeader) IN
    IF user = NoUser
    THEN /\ Answer("UpdateUser", user, userId, 401, Error("Unauthorized"))
         /\ UNCHANGED <<kv, accounts>>
    ELSE IF user # userId
    THEN /\ Answer("UpdateUser", user, userId, 403, Error("Forbidden"))
         /\ UNCHANGED <<kv, accounts>>
    ELSE IF ~Present(users, userId)
    THEN /\ Answer("UpdateUser", user, userId, 404, Error("User not found"))
         /\ UNCHANGED <<kv, accounts>>
    ELSE LET updatedUser == UpdatedUser(users[userId], updates, userId) IN
         /\ users' = Put(users, userId, updatedUser)
         /\ posts' = [k \in DOMAIN posts |->
                        IF posts[k].authorId = userId
                        THEN [posts[k] EXCEPT !.authorName = updatedUser.username]
                        ELSE posts[k]]
         /\ Answer("UpdateUser", user, userId, 200, updatedUser)
         /\ UNCHANGED <<comments, accounts>>
UpdateUser(authHeader, userId, updates) ==
    LET user == verifyAuth(authHeader) IN
    IF user = NoUser
    THEN /\ Answer("UpdateUser", user, userId, 401, Error("Unauthorized"))
         /\ UNCHANGED <<kv, accounts>>
    ELSE IF user # userId
    THEN /\ Answer("UpdateUser", user, userId, 403, Error("Forbidden"))
         /\ UNCHANGED <<kv, accounts>>
    ELSE IF ~Present(users, userId)
    THEN /\ Answer("UpdateUser", user, userId, 404, Error("User not found"))
         /\ UNCHANGED <<kv, accounts>>
    ELSE LET updatedUser == UpdatedUser(users[userId], updates, userId) IN
         /\ users' = Put(users, userId, updatedUser)
         /\ Answer("UpdateUser", user, userId, 200, updatedUser)
         /\ UNCHANGED <<posts, comments, accounts>>

----------------------------------------------------------------------------
(* Comment routes *)

MissingCommentId == <<"comment", 0, "none">>
CommentOps == {"CreateComment", "DeleteComment", "LikeComment"}
CommentIds ==
    DOMAIN comments \cup {MissingCommentId}
    \cup (IF req.op \in CommentOps THEN {req.id} ELSE {})

CommentBodies ==
    { [postId |-> pid, content |-> "nice"] : pid \in DOMAIN posts \cup {MissingId} }
    \cup { [postId |-> comments[cid].postId, content |-> "re", parentId |-> cid,
            userId |-> "u0", username |-> "mallory", avatar |-> "x.png"] :
             cid \in DOMAIN comments }
    \cup { [content |-> "lost"], [postId |-> MissingId, content |-> ""] }

NewCommentId(rnd) == <<"comment", now, rnd>>

(* NewComment with the author taken from the body when it names one *)
NewCommentTrustingBody(user, body, commentId) ==
    [ id |-> commentId,
      postId |-> body.postId,
      userId |-> IF Has(body, "userId") THEN body.userId ELSE user,
      username |-> IF Has(body, "username") THEN body.username ELSE NameOf(user),
      avatar |-> IF Has(body, "avatar") THEN body.avatar ELSE "",
      content |-> body.content,
      parentId |-> IF Has(body, "parentId") THEN <<body.parentId>> ELSE <<>>,
      likes |-> <<0>>,
      createdAt |-> now ]
NewComment(user, body, commentId) ==
    [ id |-> commentId,
      postId |-> body.postId,
      userId |-> user,
      username |-> NameOf(user),
      avatar |-> IF Present(users, user) /\ Truthy(users[user], "avatar", "")
                 THEN users[user].avatar ELSE "",
      content |-> body.content,
      parentId |-> IF Has(body, "parentId") THEN <<body.parentId>> ELSE <<>>,
      likes |-> <<0>>,
      createdAt |-> now ]

(* POST /comments *)
CreateComment(authHeader, body, rnd) ==
    LET user == verifyAuth(authHeader)
        commentId == NewCommentId(rnd)
    IN  IF user = NoUser
        THEN /\ Answer("CreateComment", user, MissingCommentId, 401,
                       Error("Unauthorized - please log in to comment"))
             /\ UNCHANGED <<kv, accounts>>
        ELSE IF ~(Has(body, "postId") /\ Truthy(body, "content", ""))
        THEN /\ Answer("CreateComment", user, MissingCommentId, 400,
                       Error("Post ID and content are required"))
             /\ UNCHANGED <<kv, accounts>>
        ELSE LET newComment == NewComment(user, body, commentId) IN
             /\ comments' = Put(comments, commentId, newComment)
             /\ Answer("CreateComment", user, commentId, 200, newComment)
             /\ UNCHANGED <<users, posts, accounts>>

(* GET /comments/:postId *)
(* ListedComments without the postId filter *)
ListedCommentsOfAllPosts(scan, postId) ==
    Sort(scan, 1)
ListedComments(scan, postId) ==
    LET OnPost(c) == c.postId = postId IN Sort(SelectSeq(scan, OnPost), 1)

ListComments(postId) ==
    \E scan \in getByPrefix(comments) :
        /\ Answer("ListComments", NoUser, postId, 200, ListedComments(scan, postId))
        /\ UNCHANGED <<kv, accounts>>

(* DELETE /comments/:id *)
(* DeleteComment without the ownership check *)
DeleteCommentByAnyone(authHeader, commentId) ==
    LET user == verifyAuth(authHeader) IN
    IF user = NoUser
    THEN /\ Answer("DeleteComment", user, commentId, 401, Error("Unauthorized"))
         /\ UNCHANGED <<kv, accounts>>
    ELSE IF ~Present(comments, commentId)
    THEN /\ Answer("DeleteComment", user, commentId, 404, Error("Comment not found"))
         /\ UNCHANGED <<kv, accounts>>
    ELSE /\ comments' = Del(comments, commentId)
         /\ Answer("DeleteComment", user, commentId, 200,
                   [message |-> "Comment deleted successfully"])
         /\ UNCHANGED <<users, posts, accounts>>
DeleteComment(authHeader, commentId) ==
    LET user == verifyAuth(authHeader) IN
    IF user = NoUser
    THEN /\ Answer("DeleteComment", user, commentId, 401, Error("Unauthorized"))
         /\ UNCHANGED <<kv, accounts>>
    ELSE IF ~Present(comments, commentId)
    THEN /\ Answer("DeleteComment", user, commentId, 404, Error("Comment not found"))
         /\ UNCHANGED <<kv, accounts>>
    ELSE IF ~MayModify(comments[commentId].userId, user)
    THEN /\ Answer("DeleteComment", user, commentId, 403, Error("Forbidden"))
         /\ UNCHANGED <<kv, accounts>>
    ELSE /\ comments' = Del(comments, commentId)
         /\ Answer("DeleteComment", user, commentId, 200,
                   [message |-> "Comment deleted successfully"])
         /\ UNCHANGED <<users, posts, accounts>>

(* POST /comments/:id/like *)
LikeComment(commentId) ==
    IF ~Present(comments, commentId)
    THEN /\ Answer("LikeComment", NoUser, commentId, 404, Error("Comment not found"))
         /\ UNCHANGED <<kv, accounts>>
    ELSE LET comment == Liked(comments[commentId]) IN
         /\ comments' = Put(comments, commentId, comment)
         /\ Answer("LikeComment", NoUser, commentId, 200, [likes |-> LikesOf(comment)])
         /\ UNCHANGED <<users, posts, accounts>>

----------------------------------------------------------------------------
(* Category and tag routes *)

(* the records of a store, as a set *)
Values(store) == {store[k] : k \in DOMAIN store}

(* The UTF-16 code unit Array.prototype.sort compares strings by; the      *)
(* names of categories and tags here are one character long.               *)
CodeUnit(s) ==
    CASE s = "A" -> 65 [] s = "B" -> 66 [] s = "x" -> 120 [] s = "y" -> 121

RECURSIVE SortStrings(_)
SortStrings(set) ==
    IF set = {} THEN <<>>
    ELSE LET least == CHOOSE a \in set : \A b \in set : CodeUnit(a) <= CodeUnit(b)
         IN  <<least>> \o SortStrings(set \ {least})

(* Collected from the published posts alone *)
CollectedFromPublished(field) ==
    UNION { {p[field][i] : i \in DOMAIN p[field]} :
              p \in {q \in Values(posts) : Has(q, field) /\ q.status = "published"} }
Collected(field) ==
    UNION { {p[field][i] : i \in DOMAIN p[field]} :
              p \in {q \in Values(posts) : Has(q, field)} }

(* GET /categories *)
Categories ==
    /\ Answer("Categories", NoUser, MissingId, 200, SortStrings(Collected("categories")))
    /\ UNCHANGED <<kv, accounts>>

(* GET /tags *)
Tags ==
    /\ Answer("Tags", NoUser, MissingId, 200, SortStrings(Collected("tags")))
    /\ UNCHANGED <<kv, accounts>>

----------------------------------------------------------------------------
(* Admin routes *)

(* IsAdmin refusing only the stored role user *)
IsAdminUnlessUser(user) == RoleOf(user) # "user"
(* IsAdmin without the role check *)
IsAdminUnchecked(user) == TRUE
IsAdmin(user) == RoleOf(user) = "admin"


Stats ==
    [ totalPosts |-> Cardinality(DOMAIN posts),
      totalUsers |-> Cardinality(DOMAIN users),
      totalComments |-> Cardinality(DOMAIN comments),
      publishedPosts |-> Cardinality({k \in DOMAIN posts : posts[k].status = "published"}),
      draftPosts |-> Cardinality({k \in DOMAIN posts : posts[k].status = "draft"}) ]

(* The guard every admin route starts with; Body is what it returns past it *)
AdminRead(op, authHeader, body) ==
    LET user == verifyAuth(authHeader) IN
    /\ IF user = NoUser
       THEN Answer(op, user, NoUser, 401, Error("Unauthorized"))
       ELSE IF ~IsAdmin(user)
       THEN Answer(op, user, NoUser, 403, Error("Forbidden - admin access only"))
       ELSE Answer(op, user, NoUser, 200, body)
    /\ UNCHANGED <<kv, accounts>>

(* GET /admin/stats, GET /admin/users, GET /admin/all-comments *)
AdminStats(authHeader) == AdminRead("AdminStats", authHeader, Stats)
AdminUsers(authHeader) == AdminRead("AdminUsers", authHeader, Values(users))
AdminAllComments(authHeader) ==
    AdminRead("AdminAllComments", authHeader, Values(comments))

(* PUT /admin/users/:id/role *)
RoleBodies == { [role |-> "admin"], [role |-> "user"], [role |-> "owner"], Empty }

WithRole(targetUser, body) ==
    Opt(body, "role") @@ [k \in DOMAIN targetUser \ {"role"} |-> targetUser[k]]

(* RoleChange storing the role before it checks the caller *)
RoleChangeWritingFirst(authHeader, targetUserId, body) ==
    LET user == verifyAuth(authHeader)
        stored == IF Present(users, targetUserId)
                  THEN Put(users, targetUserId, WithRole(users[targetUserId], body))
                  ELSE users
    IN  /\ users' = stored
        /\ UNCHANGED <<posts, comments, accounts>>
        /\ IF user = NoUser
           THEN Answer("RoleChange", user, targetUserId, 401, Error("Unauthorized"))
           ELSE IF ~IsAdmin(user)
           THEN Answer("RoleChange", user, targetUserId, 403,
                       Error("Forbidden - admin access only"))
           ELSE IF ~Present(users, targetUserId)
           THEN Answer("RoleChange", user, targetUserId, 404, Error("User not found"))
           ELSE Answer("RoleChange", user, targetUserId, 200, stored[targetUserId])
RoleChange(authHeader, targetUserId, body) ==
    LET user == verifyAuth(authHeader) IN
    IF user = NoUser
    THEN /\ Answer("RoleChange", user, targetUserId, 401, Error("Unauthorized"))
         /\ UNCHANGED <<kv, accounts>>
    ELSE IF ~IsAdmin(user)
    THEN /\ Answer("RoleChange", user, targetUserId, 403,
                   Error("Forbidden - admin access only"))
         /\ UNCHANGED <<kv, accounts>>
    ELSE IF ~Present(users, targetUserId)
    THEN /\ Answer("RoleChange", user, targetUserId, 404, Error("User not found"))
         /\ UNCHANGED <<kv, accounts>>
    ELSE LET targetUser == WithRole(users[targetUserId], body) IN
         /\ users' = Put(users, targetUserId, targetUser)
         /\ Answer("RoleChange", user, targetUserId, 200, targetUser)
         /\ UNCHANGED <<posts, comments, accounts>>

----------------------------------------------------------------------------
(* The clock advances between requests.  Instants at which nothing was    *)
(* stamped are not told apart: it advances once a stored record carries   *)
(* the current instant.                                                   *)
Tick ==
    /\ now < MaxTime
    /\ \/ \E k \in DOMAIN posts : posts[k].updatedAt = now
       \/ \E k \in DOMAIN comments : comments[k].createdAt = now
       \/ \E k \in DOMAIN users : users[k].createdAt = now
    /\ now' = now + 1
    /\ UNCHANGED <<kv, accounts, served, req, resp, flight>>

(* The store as deployed: empty, or seeded with the operator's admin record *)
SeedAdmin ==
    [ id |-> "u1", email |-> EmailOf("u1"), username |-> "root", role |-> "admin",
      avatar |-> "", bio |-> "", createdAt |-> 0 ]

Init ==
    /\ \/ users = Empty /\ accounts = {}
       \/ users = ("u1" :> SeedAdmin) /\ accounts = {"u1"}
    /\ posts = Empty
    /\ comments = Empty
    /\ now = 1
    /\ served = 0
    /\ req = [op |-> "none", caller |-> NoUser, id |-> NoUser]
    /\ resp = [status |-> 0, body |-> Empty]
    /\ flight = <<>>

(* The budget of requests is not spent *)
Open == served < MaxRequests

Next ==
    \/ Tick
    \/ Open /\ \E body \in SignupBodies : Signup(body)
    \/ Open /\ \E h \in Headers, u \in Subjects, b \in UserPatches : UpdateUser(h, u, b)
    \/ Open /\ \E h \in Headers, q \in Queries : ListPosts(h, q)
    \/ Open /\ \E id \in PostIds : GetPost(id)
    \/ Open /\ \E h \in Headers, b \in PostBodies, r \in Rnd : CreatePost(h, b, r)
    \/ Open /\ \E h \in Headers, id \in PostIds, b \in PostPatches : UpdatePost(h, id, b)
    \/ Open /\ \E h \in Headers, id \in PostIds : DeletePost(h, id)
    \/ Open /\ \E id \in PostIds : LikePost(id)
    \/ Open /\ \E id \in PostIds : ListComments(id)
    \/ Open /\ \E h \in Headers, b \in CommentBodies, r \in Rnd : CreateComment(h, b, r)
    \/ Open /\ \E h \in Headers, id \in CommentIds : DeleteComment(h, id)
    \/ Open /\ \E id \in CommentIds : LikeComment(id)
    \/ Open /\ Categories
    \/ Open /\ Tags
    \/ Open /\ \E h \in Headers : AdminStats(h)
    \/ Open /\ \E h \in Headers : AdminUsers(h)
    \/ Open /\ \E h \in Headers : AdminAllComments(h)
    \/ Open /\ \E h \in Headers, u \in Subjects, b \in RoleBodies : RoleChange(h, u, b)

Spec == Init /\ [][Next]_vars

(* The user and admin routes when the identity provider knows accounts     *)
(* that have no user record in the store: accounts made outside signup, or *)
(* by a signup whose kv.set failed after createUser had succeeded.         *)
AccountsInit ==
    /\ users \in {Empty, "u1" :> SeedAdmin}
    /\ accounts \in {{"u1"}, Subjects}
    /\ posts = Empty
    /\ comments = Empty
    /\ now = 1
    /\ served = 0
    /\ req = [op |-> "none", caller |-> NoUser, id |-> NoUser]
    /\ resp = [status |-> 0, body |-> Empty]
    /\ flight = <<>>

AccountsNext ==
    \/ Tick
    \/ Open /\ \E body \in SignupBodies : Signup(body)
    \/ Open /\ \E h \in Headers, u \in Subjects, b \in UserPatches : UpdateUser(h, u, b)
    \/ Open /\ \E h \in Headers : AdminStats(h)
    \/ Open /\ \E h \in Headers : AdminUsers(h)
    \/ Open /\ \E h \in Headers : AdminAllComments(h)
    \/ Open /\ \E h \in Headers, u \in Subjects, b \in RoleBodies : RoleChange(h, u, b)

AccountsSpec == AccountsInit /\ [][AccountsNext]_vars

----------------------------------------------------------------------------
(* Requests handled concurrently.  A handler is an async function: it      *)
(* gives way at every await, so between its kv.get and its kv.set or       *)
(* kv.del other handlers run.  A read-modify-write handler is two steps    *)
(* here: at the first it takes its reads (the record under the path id     *)
(* and, where it checks one, the caller's stored role) into flight; at the *)
(* second it decides from what it holds, writes and answers.  A finished   *)
(* request stays in flight with the status it was answered.                *)

RacePostId == <<"post", 1, "k3x">>
RaceCommentId == <<"comment", 1, "k3x">>
RaceUser == "u2"

(* what kv.get(key) resolves to: <<record>>, or <<>> for no record *)
get(store, key) == IF Present(store, key) THEN <<store[key]>> ELSE <<>>

Receive(op, authHeader, id, body, store) ==
    /\ Len(flight) < MaxFlights
    /\ flight' = Append(flight,
          [ op |-> op, caller |-> verifyAuth(authHeader), id |-> id, body |-> body,
            held |-> get(store, id), role |-> RoleOf(verifyAuth(authHeader)),
            status |-> 0 ])
    /\ UNCHANGED <<kv, accounts, now, served, req, resp>>

ReadLikePost(postId) == Receive("LikePost", NoUser, postId, Empty, posts)
ReadLikeComment(commentId) == Receive("LikeComment", NoUser, commentId, Empty, comments)
ReadUpdatePost(authHeader, postId, updates) ==
    Receive("UpdatePost", authHeader, postId, updates, posts)
ReadDeletePost(authHeader, postId) ==
    Receive("DeletePost", authHeader, postId, Empty, posts)
ReadDeleteComment(authHeader, commentId) ==
    Receive("DeleteComment", authHeader, commentId, Empty, comments)
ReadUpdateUser(authHeader, userId, updates) ==
    Receive("UpdateUser", authHeader, userId, updates, users)
ReadRoleChange(authHeader, targetUserId, body) ==
    Receive("RoleChange", authHeader, targetUserId, body, users)

Pending(i, op) == flight[i].status = 0 /\ flight[i].op = op

Reply(i, status, body) ==
    /\ served' = served + 1
    /\ req' = [op |-> flight[i].op, caller |-> flight[i].caller, id |-> flight[i].id]
    /\ resp' = [status |-> status, body |-> body]
    /\ now' = now
    /\ flight' = [flight EXCEPT ![i].status = status]

(* Held reading the key again when the handler comes to write *)
HeldReread(f, store) == get(store, f.id)
(* the record the handler holds in its local variable since its kv.get *)
Held(f, store) == f.held

(* MayModify on what the handler read: the record and the caller's role *)
MayModifyHeld(f, ownerId) == ownerId = f.caller \/ f.role = "admin"

FinishLikePost(i) ==
    LET f == flight[i]
        post == Held(f, posts)
    IN  /\ Pending(i, "LikePost")
        /\ IF post = <<>>
           THEN /\ Reply(i, 404, Error("Post not found"))
                /\ UNCHANGED <<kv, accounts>>
           ELSE /\ posts' = Put(posts, f.id, Liked(post[1]))
                /\ Reply(i, 200, [likes |-> LikesOf(Liked(post[1]))])
                /\ UNCHANGED <<users, comments, accounts>>

FinishLikeComment(i) ==
    LET f == flight[i]
        comment == Held(f, comments)
    IN  /\ Pending(i, "LikeComment")
        /\ IF comment = <<>>
           THEN /\ Reply(i, 404, Error("Comment not found"))
                /\ UNCHANGED <<kv, accounts>>
           ELSE /\ comments' = Put(comments, f.id, Liked(comment[1]))
                /\ Reply(i, 200, [likes |-> LikesOf(Liked(comment[1]))])
                /\ UNCHANGED <<users, posts, accounts>>

FinishUpdatePost(i) ==
    LET f == flight[i]
        currentPost == Held(f, posts)
    IN  /\ Pending(i, "UpdatePost")
        /\ IF f.caller = NoUser
           THEN /\ Reply(i, 401, Error("Unauthorized"))
                /\ UNCHANGED <<kv, accounts>>
           ELSE IF currentPost = <<>>
           THEN /\ Reply(i, 404, Error("Post not found"))
                /\ UNCHANGED <<kv, accounts>>
           ELSE IF ~MayModifyHeld(f, currentPost[1].authorId)
           THEN /\ Reply(i, 403, Error("Forbidden"))
                /\ UNCHANGED <<kv, accounts>>
           ELSE LET updatedPost == UpdatedPost(currentPost[1], f.body, f.id) IN
                /\ posts' = Put(posts, f.id, updatedPost)
                /\ Reply(i, 200, updatedPost)
                /\ UNCHANGED <<users, comments, accounts>>

FinishDeletePost(i) ==
    LET f == flight[i]
        post == Held(f, posts)
    IN  /\ Pending(i, "DeletePost")
        /\ IF f.caller = NoUser
           THEN /\ Reply(i, 401, Error("Unauthorized"))
                /\ UNCHANGED <<kv, accounts>>
           ELSE IF post = <<>>
           THEN /\ Reply(i, 404, Error("Post not found"))
                /\ UNCHANGED <<kv, accounts>>
           ELSE IF ~MayModifyHeld(f, post[1].authorId)
           THEN /\ Reply(i, 403, Error("Forbidden"))
                /\ UNCHANGED <<kv, accounts>>
           ELSE /\ posts' = Del(posts, f.id)
                /\ Reply(i, 200, [message |-> "Post deleted successfully"])
                /\ UNCHANGED <<users, comments, accounts>>

FinishDeleteComment(i) ==
    LET f == flight[i]
        comment == Held(f, comments)
    IN  /\ Pending(i, "DeleteComment")
        /\ IF f.caller = NoUser
           THEN /\ Reply(i, 401, Error("Unauthorized"))
                /\ UNCHANGED <<kv, accounts>>
           ELSE IF comment = <<>>
           THEN /\ Reply(i, 404, Error("Comment not found"))
                /\ UNCHANGED <<kv, accounts>>
           ELSE IF ~MayModifyHeld(f, comment[1].userId)
           THEN /\ Reply(i, 403, Error("Forbidden"))
                /\ UNCHANGED <<kv, accounts>>
           ELSE /\ comments' = Del(comments, f.id)
                /\ Reply(i, 200, [message |-> "Comment deleted successfully"])
                /\ UNCHANGED <<users, posts, accounts>>

(* FinishUpdateUser refusing to write over a record changed since its read *)
FinishUpdateUserIfUnchanged(i) ==
    LET f == flight[i]
        currentData == Held(f, users)
    IN  /\ Pending(i, "UpdateUser")
        /\ IF f.caller = NoUser
           THEN /\ Reply(i, 401, Error("Unauthorized"))
                /\ UNCHANGED <<kv, accounts>>
           ELSE IF f.caller # f.id
           THEN /\ Reply(i, 403, Error("Forbidden"))
                /\ UNCHANGED <<kv, accounts>>
           ELSE IF currentData = <<>>
           THEN /\ Reply(i, 404, Error("User not found"))
                /\ UNCHANGED <<kv, accounts>>
           ELSE IF get(users, f.id) # currentData
           THEN /\ Reply(i, 409, Error("Conflict"))
                /\ UNCHANGED <<kv, accounts>>
           ELSE LET updatedUser == UpdatedUser(currentData[1], f.body, f.id) IN
                /\ users' = Put(users, f.id, updatedUser)
                /\ Reply(i, 200, updatedUser)
                /\ UNCHANGED <<posts, comments, accounts>>
FinishUpdateUser(i) ==
    LET f == flight[i]
        currentData == Held(f, users)
    IN  /\ Pending(i, "UpdateUser")
        /\ IF f.caller = NoUser
           THEN /\ Reply(i, 401, Error("Unauthorized"))
                /\ UNCHANGED <<kv, accounts>>
           ELSE IF f.caller # f.id
           THEN /\ Reply(i, 403, Error("Forbidden"))
                /\ UNCHANGED <<kv, accounts>>
           ELSE IF currentData = <<>>
           THEN /\ Reply(i, 404, Error("User not found"))
                /\ UNCHANGED <<kv, accounts>>
           ELSE LET updatedUser == UpdatedUser(currentData[1], f.body, f.id) IN
                /\ users' = Put(users, f.id, updatedUser)
                /\ Reply(i, 200, updatedUser)
                /\ UNCHANGED <<posts, comments, accounts>>

FinishRoleChange(i) ==
    LET f == flight[i]
        targetUser == Held(f, users)
    IN  /\ Pending(i, "RoleChange")
        /\ IF f.caller = NoUser
           THEN /\ Reply(i, 401, Error("Unauthorized"))
                /\ UNCHANGED <<kv, accounts>>
           ELSE IF f.role # "admin"
           THEN /\ Reply(i, 403, Error("Forbidden - admin access only"))
                /\ UNCHANGED <<kv, accounts>>
           ELSE IF targetUser = <<>>
           THEN /\ Reply(i, 404, Error("User not found"))
                /\ UNCHANGED <<kv, accounts>>
           ELSE /\ users' = Put(users, f.id, WithRole(targetUser[1], f.body))
                /\ Reply(i, 200, WithRole(targetUser[1], f.body))
                /\ UNCHANGED <<posts, comments, accounts>>

(* The store after a signup, a post and a comment of that user, beside the *)
(* operator's admin                                                        *)
RaceInit ==
    /\ now = 1
    /\ accounts = Subjects
    /\ users = ("u1" :> SeedAdmin)
               @@ (RaceUser :> [ id |-> RaceUser, email |-> EmailOf(RaceUser),
                                 username |-> "bob", role |-> "user",
                                 avatar |-> "a.png", bio |-> "", createdAt |-> 1 ])
    /\ posts = (RacePostId :>
                 [ id |-> RacePostId, title |-> <<"T">>, content |-> <<"h", "i">>,
                   excerpt |-> <<"h", "i">>, authorId |-> RaceUser,
                   authorName |-> "bob", image |-> "", tags |-> <<"x", "y">>,
                   categories |-> <<"B">>, status |-> "published",
                   featured |-> FALSE, likes |-> <<0>>,
                   createdAt |-> 1, updatedAt |-> 1 ])
    /\ comments = (RaceCommentId :>
                    [ id |-> RaceCommentId, postId |-> RacePostId, userId |-> RaceUser,
                      username |-> "bob", avatar |-> "a.png", content |-> "nice",
                      parentId |-> <<>>, likes |-> <<0>>, createdAt |-> 1 ])
    /\ served = 0
    /\ req = [op |-> "none", caller |-> NoUser, id |-> NoUser]
    /\ resp = [status |-> 0, body |-> Empty]
    /\ flight = <<>>

RaceNext ==
    \/ ReadLikePost(RacePostId)
    \/ ReadLikeComment(RaceCommentId)
    \/ \E h \in Headers, b \in PostPatches : ReadUpdatePost(h, RacePostId, b)
    \/ \E h \in Headers : ReadDeletePost(h, RacePostId)
    \/ \E h \in Headers : ReadDeleteComment(h, RaceCommentId)
    \/ \E h \in Headers, b \in UserPatches : ReadUpdateUser(h, RaceUser, b)
    \/ \E h \in Headers, b \in RoleBodies : ReadRoleChange(h, RaceUser, b)
    \/ \E i \in DOMAIN flight : FinishLikePost(i)
    \/ \E i \in DOMAIN flight : FinishLikeComment(i)
    \/ \E i \in DOMAIN flight : FinishUpdatePost(i)
    \/ \E i \in DOMAIN flight : FinishDeletePost(i)
    \/ \E i \in DOMAIN flight : FinishDeleteComment(i)
    \/ \E i \in DOMAIN flight : FinishUpdateUser(i)
    \/ \E i \in DOMAIN flight : FinishRoleChange(i)

RaceSpec == RaceInit /\ [][RaceNext]_vars

----------------------------------------------------------------------------
(* Properties.  A step answers a request when served grows by one; req'    *)
(* and resp' are then that request and its response, and the unprimed      *)
(* store is the one the handler found.                                     *)

Answers(ops) == served' = served + 1 /\ req'.op \in ops

(* The admin routes that only read *)
AdminReads == {"AdminStats", "AdminUsers", "AdminAllComments"}

(* The likes a record counts: the number stored, 0 when there is none *)
Counted(record) ==
    IF Has(record, "likes") /\ record.likes # <<>> THEN record.likes[1] ELSE 0

(* C1: listing posts without a caller identity, under any filters, returns *)
(* only posts whose status is published.                                   *)
C1_UnauthListOnlyPublished ==
    (req.op = "ListPosts" /\ req.caller = NoUser)
        => \A i \in DOMAIN resp.body : resp.body[i].status = "published"

C1_Witness ==
    /\ req.op = "ListPosts" /\ req.caller = NoUser
    /\ Len(resp.body) > 0
    /\ \E k \in DOMAIN posts : posts[k].status = "draft"

(* C2: every stored post has status draft or published, whatever bodies    *)
(* Create Post and Update Post were sent.                                  *)
C2_StatusEnumerated ==
    \A k \in DOMAIN posts : posts[k].status \in {"draft", "published"}

(* C3: Update Post or Delete Post on an existing post by an authenticated  *)
(* caller who is neither its author nor an admin is answered 403 and       *)
(* leaves the store as it was.                                             *)
C3_ForbiddenLeavesPost ==
    [][ ( /\ Answers({"UpdatePost", "DeletePost"})
          /\ req'.caller # NoUser
          /\ Present(posts, req'.id)
          /\ posts[req'.id].authorId # req'.caller
          /\ RoleOf(req'.caller) # "admin" )
        => (resp'.status = 403 /\ kv' = kv) ]_vars

C3_Witness ==
    /\ req.op = "UpdatePost" /\ resp.status = 403
    /\ Present(posts, req.id)
    /\ posts[req.id].authorId # req.caller

(* C4: a role change to admin made by an admin on a user of role user      *)
(* stores role admin, and the admin routes then answer that user; made by  *)
(* an authenticated caller who is not admin it is answered 403 and no user *)
(* record changes.                                                         *)
C4_RoleChange ==
    [][ /\ Answers({"RoleChange"})
           => \A h \in Headers, t \in Subjects :
                ( /\ RoleChange(h, t, [role |-> "admin"])
                  /\ verifyAuth(h) # NoUser /\ RoleOf(verifyAuth(h)) = "admin"
                  /\ RoleOf(t) = "user" )
                => (resp'.status = 200 /\ users'[t].role = "admin")
        /\ ( /\ req.op = "RoleChange" /\ resp.status = 200
             /\ RoleOf(req.id) = "admin"
             /\ Answers(AdminReads \cup {"RoleChange"})
             /\ req'.caller = req.id )
           => IF req'.op \in AdminReads THEN resp'.status = 200
              ELSE resp'.status \in {200, 404}
        /\ ( /\ Answers({"RoleChange"})
             /\ req'.caller # NoUser /\ RoleOf(req'.caller) # "admin" )
           => (resp'.status = 403 /\ users' = users) ]_vars

C4_Witness ==
    /\ req.op = "RoleChange" /\ resp.status = 200
    /\ req.id # req.caller
    /\ RoleOf(req.id) = "admin"

(* C5: the id and the authorId of a post, and the id and the userId of a   *)
(* comment, are the same after any Update Post, Like, Role-change or       *)
(* Update User request as before it.                                       *)
C5_IdentityImmutable ==
    [][ Answers({"UpdatePost", "LikePost", "LikeComment", "RoleChange", "UpdateUser"})
        => /\ \A k \in DOMAIN posts \cap DOMAIN posts' :
                /\ posts'[k].id = posts[k].id
                /\ posts'[k].authorId = posts[k].authorId
           /\ \A k \in DOMAIN comments \cap DOMAIN comments' :
                /\ comments'[k].id = comments[k].id
                /\ comments'[k].userId = comments[k].userId ]_vars

(* C6: no request other than a create lowers the likes of a stored post or *)
(* comment.                                                                *)
C6_LikesNeverDecrease ==
    [][ ~Answers({"CreatePost", "CreateComment"})
        => /\ \A k \in DOMAIN posts \cap DOMAIN posts' :
                Counted(posts'[k]) >= Counted(posts[k])
           /\ \A k \in DOMAIN comments \cap DOMAIN comments' :
                Counted(comments'[k]) >= Counted(comments[k]) ]_vars

(* C7: a Like on a stored post or comment with likes k (0 when the field   *)
(* is missing) stores k + 1 and returns k + 1; a Like that follows a Like  *)
(* on the same id returns one more than it.                                *)
C7_LikeAddsOne ==
    [][ /\ (Answers({"LikePost"}) /\ Present(posts, req'.id))
           => /\ resp'.status = 200
              /\ resp'.body.likes = Counted(posts[req'.id]) + 1
              /\ posts'[req'.id].likes = <<Counted(posts[req'.id]) + 1>>
        /\ (Answers({"LikeComment"}) /\ Present(comments, req'.id))
           => /\ resp'.status = 200
              /\ resp'.body.likes = Counted(comments[req'.id]) + 1
              /\ comments'[req'.id].likes = <<Counted(comments[req'.id]) + 1>>
        /\ ( /\ req.op \in {"LikePost", "LikeComment"} /\ resp.status = 200
             /\ Answers({req.op}) /\ req'.id = req.id )
           => (resp'.status = 200 /\ resp'.body.likes = resp.body.likes + 1) ]_vars

C7_Witness ==
    /\ req.op = "LikePost" /\ resp.status = 200
    /\ resp.body.likes = 2
    /\ posts[req.id].likes = <<2>>

(* C8: a Delete Post that was acknowledged removes the key; a Get Post of  *)
(* the same id right after it is answered 404 and a List Posts right after *)
(* it does not hold that id.                                               *)
C8_DeletedIsGone ==
    [][ /\ (Answers({"DeletePost"}) /\ resp'.status = 200)
           => ~Present(posts', req'.id)
        /\ ( /\ req.op = "DeletePost" /\ resp.status = 200
             /\ Answers({"GetPost"}) /\ req'.id = req.id )
           => resp'.status = 404
        /\ ( /\ req.op = "DeletePost" /\ resp.status = 200
             /\ Answers({"ListPosts"}) )
           => \A i \in DOMAIN resp'.body : resp'.body[i].id # req.id ]_vars

C8_Witness ==
    /\ req.op = "GetPost" /\ resp.status = 404
    /\ req.id # MissingId

(* C9: Create Post by an authenticated caller returns and stores, under an *)
(* id post_<timestamp>_<random>, a record with the title, content and tags *)
(* of the body and likes 0; Get Post of a stored id returns the stored     *)
(* record, so a Get Post right after the create returns what it returned.  *)
C9_CreateGetRoundTrip ==
    [][ /\ (Answers({"CreatePost"}) /\ req'.caller # NoUser)
           => \A b \in PostBodies, r \in {req'.id[3]} :
                CreatePost(req'.caller, b, r)
                => /\ resp'.body.id = <<"post", now, r>>
                   /\ Present(posts', resp'.body.id)
                   /\ posts'[resp'.body.id] = resp'.body
                   /\ resp'.body.likes = <<0>>
                   /\ \A f \in {"title", "content", "tags"} :
                        Has(b, f) => (Has(resp'.body, f) /\ resp'.body[f] = b[f])
        /\ (Answers({"GetPost"}) /\ Present(posts, req'.id))
           => (resp'.status = 200 /\ resp'.body = posts[req'.id])
        /\ ( /\ req.op = "CreatePost" /\ resp.status = 200
             /\ Answers({"GetPost"}) /\ req'.id = resp.body.id )
           => (resp'.status = 200 /\ resp'.body = resp.body) ]_vars

C9_Witness ==
    /\ req.op = "GetPost" /\ resp.status = 200
    /\ Has(resp.body, "content")
    /\ resp.body.title = <<"T">>
    /\ resp.body.content = <<"h", "i">>
    /\ resp.body.tags = <<"x", "y">>
    /\ resp.body.likes = <<0>>

(* C10: Create Post without a caller identity is answered 401 and writes   *)
(* nothing; with one, the stored authorId is the caller's subject id and   *)
(* the stored authorName the username of the caller's user record,         *)
(* whatever authorId and authorName the body carries.                      *)
C10_AuthorFromCaller ==
    [][ /\ (Answers({"CreatePost"}) /\ req'.caller = NoUser)
           => (resp'.status = 401 /\ kv' = kv)
        /\ (Answers({"CreatePost"}) /\ req'.caller # NoUser)
           => \A b \in PostBodies, r \in {req'.id[3]} :
                CreatePost(req'.caller, b, r)
                => /\ resp'.status = 200
                   /\ posts'[<<"post", now, r>>].authorId = req'.caller
                   /\ (Present(users, req'.caller)
                         /\ Truthy(users[req'.caller], "username", ""))
                      => posts'[<<"post", now, r>>].authorName
                             = users[req'.caller].username ]_vars

C10_Witness ==
    /\ req.op = "CreatePost" /\ resp.status = 200
    /\ req.caller = "u2"
    /\ resp.body.title = <<"D">>
    /\ posts[req.id].authorId = "u2"
    /\ posts[req.id].authorName = users["u2"].username

----------------------------------------------------------------------------
(* Listings *)

(* the posts or comments of a 200 listing response, as a set *)
Listed == { resp.body[i] : i \in DOMAIN resp.body }
NoDuplicates == \A i, j \in DOMAIN resp.body : i # j => resp.body[i] # resp.body[j]

MatchesIgnoringCase(text, word) ==
    \E i \in 0..(Len(text) - Len(word)) :
        \A j \in 1..Len(word) : Lower(text[i + j]) = Lower(word[j])

(* a stored post against the visibility, category, tag and search filters *)
(* of a query; a filter given with an empty value counts as not given     *)
PassesFilters(p, user, query) ==
    /\ user = NoUser => p.status = "published"
    /\ Truthy(query, "category", "")
          => \E i \in DOMAIN p.categories : p.categories[i] = query.category
    /\ Truthy(query, "tag", "") => \E i \in DOMAIN p.tags : p.tags[i] = query.tag
    /\ Truthy(query, "search", <<>>)
          => \E f \in {"title", "content", "excerpt"} :
                Has(p, f) /\ MatchesIgnoringCase(p[f], query.search)

Passing == { p \in Values(posts) : PassesFilters(p, req.caller, req.query) }

(* C11: List Posts returns exactly the stored posts that pass the          *)
(* visibility filter (every status for an authenticated caller, published  *)
(* only otherwise) and the category, tag and case-insensitive search       *)
(* filters the query supplies; without a featured parameter none of them   *)
(* is omitted, with one every returned post still passes these filters.    *)
C11_ListExact ==
    req.op = "ListPosts"
    => /\ NoDuplicates
       /\ Listed \subseteq Passing
       /\ ~Has(req.query, "featured") => Listed = Passing

C11_Witness ==
    /\ req.op = "ListPosts" /\ req.caller # NoUser
    /\ Truthy(req.query, "search", <<>>) /\ ~Has(req.query, "featured")
    /\ Listed # {} /\ Listed # Values(posts)
    /\ \E p \in Listed : ~MatchesSearchTitleOnly(p, toLowerCase(req.query.search))

(* C12: whenever the query of List Posts supplies featured, as true or as  *)
(* false, every returned post has its featured field equal to the supplied *)
(* value.                                                                  *)
C12_FeaturedEquality ==
    (req.op = "ListPosts" /\ Has(req.query, "featured"))
    => \A p \in Listed : p.featured = (req.query.featured = "true")

(* C13: in the sequence List Posts returns, for every query and caller,    *)
(* the post at position i has a createdAt at least that of the post at any *)
(* later position j.                                                       *)
C13_NewestFirst ==
    req.op = "ListPosts"
    => \A i, j \in DOMAIN resp.body :
          i < j => resp.body[i].createdAt >= resp.body[j].createdAt

C13_Witness ==
    /\ req.op = "ListPosts" /\ Len(resp.body) >= 2
    /\ resp.body[1].createdAt > resp.body[Len(resp.body)].createdAt

(* C14: List Comments for a post returns exactly the stored comments whose *)
(* postId is that post, each once, ordered by createdAt ascending, so a    *)
(* top-level comment created earlier stands before one created later.      *)
C14_CommentsOfPostOldestFirst ==
    req.op = "ListComments"
    => /\ NoDuplicates
       /\ Listed = { c \in Values(comments) : c.postId = req.id }
       /\ \A i, j \in DOMAIN resp.body :
             i < j => resp.body[i].createdAt <= resp.body[j].createdAt
       /\ \A i, j \in DOMAIN resp.body :
             resp.body[i].createdAt < resp.body[j].createdAt => i < j

C14_Witness ==
    /\ req.op = "ListComments" /\ Len(resp.body) >= 2
    /\ resp.body[1].parentId = <<>> /\ resp.body[2].parentId = <<>>
    /\ resp.body[1].createdAt < resp.body[2].createdAt

(* C15: the Categories listing, and likewise the Tags listing, is strictly *)
(* ascending in lexicographic order, hence without duplicates, and its     *)
(* elements are exactly the categories (tags) of all stored posts of any   *)
(* status; posts with categories B and A, B give A, B.                     *)
C15_ListingSortedUnion ==
    req.op \in {"Categories", "Tags"}
    => LET field == IF req.op = "Categories" THEN "categories" ELSE "tags" IN
       /\ \A i, j \in DOMAIN resp.body :
             i < j => CodeUnit(resp.body[i]) < CodeUnit(resp.body[j])
       /\ \A a \in {"A", "B", "x", "y"} :
             a \in Listed
             <=> \E k \in DOMAIN posts : \E i \in DOMAIN posts[k][field] :
                    posts[k][field][i] = a

C15_Witness ==
    /\ req.op = "Categories" /\ resp.body = <<"A", "B">>
    /\ \E k \in DOMAIN posts : posts[k].categories = <<"B">>
    /\ \E k \in DOMAIN posts :
          posts[k].categories = <<"A", "B">> /\ posts[k].status # "published"

(* C16: Create Comment without a caller identity is answered 401, and by   *)
(* an authenticated caller without a postId or with missing or empty       *)
(* content 400, no comment being written in either case; otherwise one     *)
(* comment is written whose userId is the caller, whose username and       *)
(* avatar are those of the caller's stored profile whatever the body       *)
(* carries, whose likes are 0 and whose parentId is the one supplied, or   *)
(* null.                                                                   *)
C16_CreateComment ==
    [][ Answers({"CreateComment"})
        => /\ req'.caller = NoUser => (resp'.status = 401 /\ kv' = kv)
           /\ req'.caller # NoUser
               => \A b \in CommentBodies, r \in {req'.id[3]} :
                    CreateComment(req'.caller, b, r)
                    => IF ~Has(b, "postId") \/ ~Has(b, "content") \/ b.content = ""
                       THEN resp'.status = 400 /\ kv' = kv
                       ELSE /\ resp'.status = 200
                            /\ DOMAIN comments' = DOMAIN comments \cup {req'.id}
                            /\ comments'[req'.id].userId = req'.caller
                            /\ Present(users, req'.caller)
                                 => /\ comments'[req'.id].username
                                         = users[req'.caller].username
                                    /\ comments'[req'.id].avatar
                                         = users[req'.caller].avatar
                            /\ comments'[req'.id].likes = <<0>>
                            /\ comments'[req'.id].parentId
                                 = IF Has(b, "parentId") THEN <<b.parentId>> ELSE <<>>
      ]_vars

C16_Witness ==
    /\ req.op = "CreateComment" /\ resp.status = 200
    /\ Present(comments, req.id) /\ Present(users, req.caller)
    /\ comments[req.id].parentId # <<>>
    /\ comments[req.id].userId = req.caller
    /\ comments[req.id].username = users[req.caller].username
    /\ comments[req.id].username # "mallory"

(* C17: Delete Comment on a stored comment succeeds, removing it, exactly  *)
(* when the caller is the comment's userId or has the stored role admin;   *)
(* any other authenticated caller is answered 403 and the store stays as   *)
(* it was.                                                                 *)
C17_DeleteCommentOwnerOrAdmin ==
    [][ /\ ( /\ Answers({"DeleteComment"})
             /\ req'.caller # NoUser
             /\ Present(comments, req'.id) )
           => IF \/ comments[req'.id].userId = req'.caller
                 \/ RoleOf(req'.caller) = "admin"
              THEN resp'.status = 200 /\ ~Present(comments', req'.id)
              ELSE resp'.status = 403 /\ kv' = kv
        /\ (Answers({"DeleteComment"}) /\ resp'.status = 200)
           => /\ req'.caller # NoUser
              /\ Present(comments, req'.id)
              /\ \/ comments[req'.id].userId = req'.caller
                 \/ RoleOf(req'.caller) = "admin" ]_vars

C17_Witness ==
    /\ req.op = "DeleteComment" /\ resp.status = 403
    /\ Present(comments, req.id)
    /\ comments[req.id].userId # req.caller

(* C18: Update User on a target by an authenticated caller other than the  *)
(* target is answered 403, whether or not the target has a record, and     *)
(* changes nothing; by the target itself when it has no record it is       *)
(* answered 404 and creates none; otherwise the stored record becomes the  *)
(* previous one with each supplied field replaced and id still the target. *)
C18_UpdateUser ==
    [][ (Answers({"UpdateUser"}) /\ req'.caller # NoUser)
        => IF req'.caller # req'.id
           THEN resp'.status = 403 /\ kv' = kv
           ELSE IF ~Present(users, req'.id)
           THEN resp'.status = 404 /\ kv' = kv
           ELSE \A b \in UserPatches :
                  UpdateUser(req'.caller, req'.id, b)
                  => /\ resp'.status = 200
                     /\ DOMAIN users' = DOMAIN users
                     /\ \A u \in DOMAIN users \ {req'.id} : users'[u] = users[u]
                     /\ DOMAIN users'[req'.id] = DOMAIN users[req'.id] \cup DOMAIN b
                     /\ users'[req'.id].id = req'.id
                     /\ \A f \in DOMAIN b \ {"id"} : users'[req'.id][f] = b[f]
                     /\ \A f \in DOMAIN users[req'.id] \ DOMAIN b :
                           users'[req'.id][f] = users[req'.id][f]
                     /\ posts' = posts /\ comments' = comments ]_vars

C18_Witness ==
    /\ req.op = "UpdateUser" /\ resp.status = 404
    /\ req.caller = req.id
    /\ ~Present(users, req.id)

(* C19: a signup whose body lacks email, password or username fails with   *)
(* the validation error, and one the identity provider rejects fails with  *)
(* the provider's error, no user record being written in either case; a    *)
(* successful one writes exactly one user record, under the provider's     *)
(* subject id, with role user whatever role the body carries, an empty bio *)
(* and the avatar supplied, or an empty one.                               *)
C19_Signup ==
    [][ Answers({"Signup"})
        => \A b \in SignupBodies :
             Signup(b)
             => IF \E f \in {"email", "password", "username"} : ~Has(b, f) \/ b[f] = ""
                THEN /\ resp'.status # 200
                     /\ resp'.body = Error("Email, password, and username are required")
                     /\ kv' = kv
                ELSE IF SubjectOf(b.email) \in accounts
                THEN /\ resp'.status # 200
                     /\ resp'.body = Error("provider")
                     /\ kv' = kv
                ELSE /\ resp'.status = 200
                     /\ req'.id = SubjectOf(b.email)
                     /\ ~Present(users, req'.id)
                     /\ DOMAIN users' = DOMAIN users \cup {req'.id}
                     /\ \A u \in DOMAIN users : users'[u] = users[u]
                     /\ users'[req'.id].id = req'.id
                     /\ users'[req'.id].role = "user"
                     /\ users'[req'.id].bio = ""
                     /\ users'[req'.id].avatar
                          = IF Has(b, "avatar") THEN b.avatar ELSE ""
                     /\ posts' = posts /\ comments' = comments ]_vars

C19_Witness ==
    /\ req.op = "Signup" /\ resp.status = 200
    /\ Present(users, req.id)
    /\ users[req.id].username = req.id
    /\ users[req.id].role = "user"

(* C20: every admin route (stats, users, all comments, role change)        *)
(* answers 401 without a valid caller identity and 403 to a caller whose   *)
(* stored record has a role other than admin or who has no stored record,  *)
(* the store staying as it was; it returns data or changes a role only to  *)
(* a caller whose stored role is admin when the request is handled.        *)
C20_AdminGuard ==
    [][ Answers(AdminReads \cup {"RoleChange"})
        => /\ req'.caller = NoUser => (resp'.status = 401 /\ kv' = kv)
           /\ ( /\ req'.caller # NoUser
                /\ \/ ~Present(users, req'.caller)
                   \/ RoleOf(req'.caller) # "admin" )
              => (resp'.status = 403 /\ kv' = kv)
           /\ (resp'.status = 200 \/ users' # users)
              => /\ req'.caller # NoUser
                 /\ Present(users, req'.caller)
                 /\ users[req'.caller].role = "admin" ]_vars

C20_Witness ==
    /\ req.op \in AdminReads \cup {"RoleChange"}
    /\ resp.status = 403
    /\ req.caller # NoUser
    /\ ~Present(users, req.caller)

(* C21: Update User and Role-change leave every stored post and comment    *)
(* as it was, so the authorName of earlier posts and the username and      *)
(* avatar of earlier comments keep the values copied when they were        *)
(* created.                                                                *)
C21_SnapshotsKept ==
    [][ Answers({"UpdateUser", "RoleChange"})
        => (posts' = posts /\ comments' = comments) ]_vars

C21_Witness ==
    /\ req.op = "UpdateUser" /\ resp.status = 200
    /\ \/ \E k \in DOMAIN posts :
            /\ posts[k].authorId = req.id
            /\ posts[k].authorName # users[req.id].username
       \/ \E k \in DOMAIN comments :
            /\ comments[k].userId = req.id
            /\ comments[k].username # users[req.id].username

----------------------------------------------------------------------------
(* Error kinds *)

(* the kind of error a failure body tells of *)
ValidationErrors ==
    { Error("Email, password, and username are required"),
      Error("Post ID and content are required") }
AuthenticationErrors ==
    { Error("Unauthorized"),
      Error("Unauthorized - please log in to create posts"),
      Error("Unauthorized - please log in to comment") }
AuthorizationErrors == { Error("Forbidden"), Error("Forbidden - admin access only") }
NotFoundErrors ==
    { Error("User not found"), Error("Post not found"), Error("Comment not found") }

StatusClass(body) ==
    CASE body \in ValidationErrors -> 400
      [] body \in AuthenticationErrors -> 401
      [] body \in AuthorizationErrors -> 403
      [] body \in NotFoundErrors -> 404
      [] OTHER -> 500

(* C22: every failing request is answered with the status class of its     *)
(* error kind: 400 for a validation error only, 401 for an authentication  *)
(* error, 403 for an authorization error, 404 for a missing record and 500 *)
(* for everything else, the identity provider's rejection of a signup      *)
(* included.                                                               *)
C22_StatusByKind ==
    resp.status \notin {0, 200} => resp.status = StatusClass(resp.body)

(* C23: every stored user record has a role, and it is user or admin, in   *)
(* every reachable state, whatever bodies signup, Update User and          *)
(* Role-change were given.                                                 *)
C23_RoleEnumerated ==
    \A u \in DOMAIN users :
        Has(users[u], "role") /\ users[u].role \in {"user", "admin"}

(* C24: Create Post and Create Comment never write to a key that already   *)
(* holds a record, so no create replaces a stored post or comment.         *)
C24_CreateWritesFreshKey ==
    [][ (Answers({"CreatePost", "CreateComment"}) /\ resp'.status = 200)
        => IF req'.op = "CreatePost"
           THEN ~Present(posts, req'.id)
           ELSE ~Present(comments, req'.id) ]_vars

----------------------------------------------------------------------------
(* Concurrent requests *)

(* C25: Like is a read-modify-write without a concurrency check: a Like    *)
(* that succeeds stores the likes of the record it read plus one, whatever *)
(* the key holds by then, so two Likes of one id that both read likes = k  *)
(* before either writes both succeed and leave k + 1.                      *)
C25_LikeWritesReadPlusOne ==
    [][ \A i \in DOMAIN flight :
          ( /\ flight[i].status = 0
            /\ flight[i].op \in {"LikePost", "LikeComment"}
            /\ flight'[i].status = 200 )
          => IF flight[i].op = "LikePost"
             THEN /\ Present(posts', flight[i].id)
                  /\ Counted(posts'[flight[i].id]) = Counted(flight[i].held[1]) + 1
             ELSE /\ Present(comments', flight[i].id)
                  /\ Counted(comments'[flight[i].id])
                       = Counted(flight[i].held[1]) + 1 ]_vars

C25_Witness ==
    \E i, j \in DOMAIN flight :
        /\ i # j
        /\ flight[i].op = "LikePost" /\ flight[j].op = "LikePost"
        /\ flight[i].id = flight[j].id
        /\ flight[i].status = 200 /\ flight[j].status = 200
        /\ Counted(flight[i].held[1]) = Counted(flight[j].held[1])
        /\ Present(posts, flight[i].id)
        /\ Counted(posts[flight[i].id]) = Counted(flight[i].held[1]) + 1

(* C26: a Role-change by an admin and an Update User by the target itself, *)
(* handled concurrently, each write back the record they read: the request *)
(* of a caller entitled to it whose read found the record is answered 200  *)
(* and stores that record with its own fields replaced, so when both read  *)
(* before either writes both succeed and the stored record shows only the  *)
(* later write (the profile write restores the role it read).              *)
C26_WritesBackWhatItRead ==
    [][ \A i \in DOMAIN flight :
          ( /\ flight[i].status = 0 /\ flight'[i].status # 0
            /\ flight[i].op \in {"UpdateUser", "RoleChange"}
            /\ flight[i].held # <<>>
            /\ IF flight[i].op = "UpdateUser"
               THEN flight[i].caller = flight[i].id
               ELSE flight[i].caller # NoUser /\ flight[i].role = "admin" )
          => /\ flight'[i].status = 200
             /\ Present(users', flight[i].id)
             /\ \A f \in DOMAIN flight[i].held[1] \ (DOMAIN flight[i].body \cup {"role"}) :
                   /\ Has(users'[flight[i].id], f)
                   /\ users'[flight[i].id][f] = flight[i].held[1][f]
             /\ flight[i].op = "UpdateUser" /\ ~Has(flight[i].body, "role")
                => Opt(users'[flight[i].id], "role") = Opt(flight[i].held[1], "role")
             /\ flight[i].op = "RoleChange" /\ Has(flight[i].body, "role")
                => Opt(users'[flight[i].id], "role") = Opt(flight[i].body, "role") ]_vars

C26_Witness ==
    \E i, j \in DOMAIN flight :
        /\ flight[i].op = "RoleChange" /\ flight[i].status = 200
        /\ flight[j].op = "UpdateUser" /\ flight[j].status = 200
        /\ flight[i].id = flight[j].id
        /\ flight[i].body = [role |-> "admin"]
        /\ ~Has(flight[j].body, "role")
        /\ flight[i].held = flight[j].held
        /\ flight[i].held[1].role = "user"
        /\ RoleOf(flight[i].id) = "user"
        /\ req.op = "UpdateUser"

(* C27: the stored role of a user changes only in a Role-change request    *)
(* made by a caller whose stored role is admin at that time; no signup or  *)
(* Update User request, whatever its body, changes a role.                 *)
C27_RoleChangesOnlyByAdmin ==
    [][ (\E u \in DOMAIN users \cap DOMAIN users' :
            Opt(users'[u], "role") # Opt(users[u], "role"))
        => /\ Answers({"RoleChange"})
           /\ RoleOf(req'.caller) = "admin" ]_vars

(* C28: once a Delete Post or a Delete Comment on an id has been answered  *)
(* 200, no record is stored under that id in any later state, even when a  *)
(* Like or an Update Post of that id had read the record before it was     *)
(* deleted.                                                                *)
C28_DeletedStaysDeleted ==
    \A i \in DOMAIN flight :
        (flight[i].op \in {"DeletePost", "DeleteComment"} /\ flight[i].status = 200)
        => IF flight[i].op = "DeletePost"
           THEN ~Present(posts, flight[i].id)
           ELSE ~Present(comments, flight[i].id)

(* C29: no read route that answers without a caller identity, List Posts   *)
(* and Get Post by id, returns a post whose status is draft.               *)
C29_DraftsHiddenFromAnonymous ==
    /\ (req.op = "ListPosts" /\ req.caller = NoUser)
          => \A p \in Listed : p.status # "draft"
    /\ (req.op = "GetPost" /\ req.caller = NoUser /\ resp.status = 200)
          => resp.body.status # "draft"

============================================================================
